---- MODULE Spec2Model ----
(***************************************************************************)
(* Model of crates/librqbit/src/torrent_manager.rs: the startup sequence   *)
(* of TorrentManager::start, the speed-estimator sampling task and the     *)
(* tracker announce loop (single_tracker_monitor / tracker_one_request).   *)
(* FileOps, ChunkTracker and TorrentStateLive live in other files of the   *)
(* crate; the parts of them used here are modelled from their description. *)
(***************************************************************************)
EXTENDS Integers, Sequences, FiniteSets, TLC

\* ------------------------------------------------------------- bounds
NumFiles == 2
NumTrackers == 2
NumAddrs == 3
\* piece length of the descriptor, in blocks
PieceLength == 2
\* calls of start on the same output directory
MaxStarts == 2
\* most bytes (in blocks) the peer layer writes
MaxFetched == 4
\* width of the byte counters in bits (u64 in the program)
CounterBits == 4

\* ------------------------------------------------- program constants
\* tokio::time::sleep(Duration::from_secs(60)) in the Err arm
FallbackInterval == 60

\* ------------------------------------------------------------ helpers
\* Option<T>: None is the empty sequence, Some(v) the one-element sequence
None == <<>>
Some(v) == <<v>>
IsSome(o) == Len(o) = 1
Unwrap(o) == o[1]
UnwrapOrElse(o, d) == IF IsSome(o) THEN o[1] ELSE d

Files == 1..NumFiles
Trackers == 1..NumTrackers
Addrs == 1..NumAddrs

\* ------------------------------------------------ descriptor geometry
\* info.iter_filenames_and_lengths(): the first file is 1.5 pieces long,
\* every other file half a piece (lengths in blocks)
FileLength(f) == IF f = 1 THEN 3 ELSE 1

RECURSIVE SumLengths(_)
SumLengths(n) == IF n = 0 THEN 0 ELSE SumLengths(n - 1) + FileLength(n)

\* make_lengths: total_length = sum of the file lengths
TotalLength == SumLengths(NumFiles)
NumPieces == (TotalLength + PieceLength - 1) \div PieceLength
Pieces == 1..NumPieces
PieceStart(p) == (p - 1) * PieceLength
PieceEnd(p) == IF p * PieceLength < TotalLength THEN p * PieceLength ELSE TotalLength
PieceLen(p) == PieceEnd(p) - PieceStart(p)
FileStart(f) == SumLengths(f - 1)
FileEnd(f) == SumLengths(f)
\* the files a piece's byte range overlaps
PieceFiles(p) == {f \in Files : FileStart(f) < PieceEnd(p) /\ PieceStart(p) < FileEnd(f)}

\* ------------------------------------------------------------- inputs
\* announce intervals a tracker may answer with (seconds)
Intervals == {0, 1800}
\* options.force_tracker_interval
ForceChoices == {None, Some(5)}
\* options.only_files
OnlyFilesChoices == {None} \cup {Some({f}) : f \in Files}

\* a file on disk before start: absent, present and empty, or present with
\* its full and correct content
AbsentFile == [exists |-> FALSE, len |-> 0, good |-> FALSE]
EmptyFile == [exists |-> TRUE, len |-> 0, good |-> FALSE]
FullFile(f) == [exists |-> TRUE, len |-> FileLength(f), good |-> TRUE]
DiskChoices == {d \in [Files -> [exists : BOOLEAN, len : 0..TotalLength, good : BOOLEAN]] :
                  \A f \in Files : d[f] \in {AbsentFile, EmptyFile, FullFile(f)}}

VARIABLES
  options,        \* ManagedTorrentOptions given to start
  disk,           \* the output files on disk
  spc,            \* position of start
  idx,            \* loop index of the file loops of start
  error,          \* Some(error) once start has returned Err
  steps,          \* the startup steps completed so far, in order
  preexisting,    \* history: the output files that existed when start was called
  check,          \* Some(initial_check_results) once the initial check returned
  chunk_tracker,  \* Some(ChunkTracker) once constructed
  sampler,        \* whether the speed_estimator_updater task is spawned
  sampled,        \* whether the sampling task has taken a snapshot
  served,         \* the last answer of next_block, None before any call
  peers,          \* state.add_peer_if_not_seen's set: address -> entries
  accepted,       \* history: addresses contained in accepted responses
  tpc,            \* position of each tracker loop
  event,          \* the local `event` of each tracker loop
  request,        \* the announce request in flight of each loop
  outcome,        \* result of the last tracker_one_request of each loop
  sleep,          \* duration of the sleep each loop is in
  succeeded,      \* history: the loop has had a successful announce
  presize_failed, \* history: the files whose ensure_file_length call failed
  starts,         \* number of calls of start so far
  prev_fail,      \* history: where and how the previous call of start failed
  stats,          \* Some(counters of TorrentStateLive) once constructed
  remaining,      \* the remaining value of the sampling task's last snapshot
  signalled,      \* the pieces whose completion was signalled for hashing
  reported        \* history: the counters in the last request of each loop, and
                  \* whether both differ from those in the request before it

vars == <<options, disk, spc, idx, error, steps, preexisting, check, chunk_tracker, sampler,
          sampled, served, peers, accepted, tpc, event, request, outcome, sleep,
          succeeded, presize_failed, starts, prev_fail, stats, remaining, signalled,
          reported>>

\* what start leaves as it is once it has opened the files
openVars == <<options, spc, idx, error, steps, preexisting, starts, prev_fail>>
startVars == <<options, disk, spc, idx, error, steps, preexisting, check, chunk_tracker,
              sampler, presize_failed, starts, prev_fail, stats>>
trackerVars == <<peers, accepted, tpc, event, request, outcome, sleep, succeeded, reported>>
\* the state of the running engine outside the announce loops
runVars == <<sampled, served, remaining, signalled>>

\* the state in which start is called
StartInit ==
  /\ options \in [overwrite : BOOLEAN,
                  force_tracker_interval : ForceChoices,
                  only_files : OnlyFilesChoices]
  /\ disk \in DiskChoices
  /\ spc = "open"
  /\ idx = 1
  /\ error = None
  /\ steps = <<>>
  /\ preexisting = {f \in Files : disk[f].exists}
  /\ check = None
  /\ chunk_tracker = None
  /\ sampler = FALSE
  /\ sampled = FALSE
  /\ served = None
  /\ peers = [a \in Addrs |-> 0]
  /\ accepted = {}
  /\ tpc = [t \in Trackers |-> "idle"]
  /\ event = [t \in Trackers |-> None]
  /\ request = [t \in Trackers |-> None]
  /\ outcome = [t \in Trackers |-> None]
  /\ sleep = [t \in Trackers |-> None]
  /\ succeeded = [t \in Trackers |-> FALSE]
  /\ presize_failed = {}
  /\ starts = 1
  /\ prev_fail = None
  /\ stats = None
  /\ remaining = None
  /\ signalled = {}
  /\ reported = [t \in Trackers |-> None]

\* --------------------------------------------------------------- start
\* an open that creates or opens the file whether or not it exists and
\* whether or not overwrite was requested
OpenOne_AlwaysCreate(overwrite, file, io) ==
  IF io = "fail_create"
  THEN [err |-> Some("IoError"), file |-> file]
  ELSE [err |-> None, file |-> IF file.exists THEN file ELSE EmptyFile]

\* Opening one output file (the body of the for loop of start): `file` is the
\* file's state on disk and `io` what the file system answers. The result is
\* the error start returns (None when the file was opened) and the file's
\* state on disk afterwards.
OpenOne(overwrite, file, io) ==
  IF overwrite
  THEN \* OpenOptions::new().create(true).read(true).write(true).open(..)?
       IF io = "fail_create"
       THEN [err |-> Some("IoError"), file |-> file]
       ELSE [err |-> None, file |-> IF file.exists THEN file ELSE EmptyFile]
  ELSE \* OpenOptions::new().create_new(true).write(true).open(..)
       \*   .with_context(|| "error creating ..")?
       IF file.exists
       THEN [err |-> Some("FileConflict"), file |-> file]
       ELSE IF io = "fail_create"
       THEN [err |-> Some("IoError"), file |-> file]
       \* OpenOptions::new().read(true).write(true).open(..)?
       ELSE IF io = "fail_reopen"
       THEN [err |-> Some("IoError"), file |-> EmptyFile]
       ELSE [err |-> None, file |-> EmptyFile]

\* a start that spawns its background task and returns the handle right
\* after opening the files, and runs the initial check afterwards
StepAfter_SpawnFirst(step) ==
  CASE step = "open" -> "spawn"
    [] step = "spawn" -> "returned"
    [] step = "check" -> "presize"
    [] step = "presize" -> "construct"
    [] step = "construct" -> "returned"

\* The position of start after each of its steps.
StepAfter(step) ==
  CASE step = "open" -> "check"
    [] step = "check" -> "presize"
    [] step = "presize" -> "construct"
    [] step = "construct" -> "spawn"
    [] step = "spawn" -> "returned"

\* an error return that deletes the files this call of start created
DiskOnOpenError_RollBack(d, k, pre) ==
  [f \in Files |-> IF f <= k /\ f \notin pre THEN AbsentFile ELSE d[f]]

\* The output files after start returns an error from opening file k (`?`
\* drops the handles opened so far; nothing is deleted). `pre` are the files
\* that existed when start was called.
DiskOnOpenError(d, k, pre) == d

\* for (path_bits, _) in info.iter_filenames_and_lengths()? { .. }, then
\* make_lengths (which succeeds on the descriptor's valid geometry)
OpenFile ==
  /\ spc = "open"
  /\ \E io \in {"ok", "fail_create", "fail_reopen"} :
       LET r == OpenOne(options.overwrite, disk[idx], io)
           opened == [disk EXCEPT ![idx] = r.file]
       IN
       /\ disk' = IF IsSome(r.err) THEN DiskOnOpenError(opened, idx, preexisting)
                  ELSE opened
       /\ IF IsSome(r.err)
          THEN /\ error' = r.err
               /\ spc' = "failed"
               /\ UNCHANGED <<idx, steps>>
          ELSE /\ error' = error
               /\ IF idx = NumFiles
                  THEN /\ spc' = StepAfter("open")
                       /\ steps' = Append(steps, "open")
                       /\ idx' = 1
                  ELSE /\ idx' = idx + 1
                       /\ UNCHANGED <<spc, steps>>
  /\ UNCHANGED <<options, preexisting, check, chunk_tracker, sampler, sampled, served>>
  /\ UNCHANGED <<presize_failed, starts, prev_fail, stats, remaining, signalled>>
  /\ UNCHANGED trackerVars

RECURSIVE SumPieceLen(_)
SumPieceLen(S) ==
  IF S = {} THEN 0
  ELSE LET p == CHOOSE x \in S : TRUE IN PieceLen(p) + SumPieceLen(S \ {p})

\* FileOps::initial_check(only_files): a piece is had when every file it
\* overlaps is selected and holds its full, correct content; every other
\* piece is needed.
InitialCheckResults(d, only_files) ==
  LET selected(f) == ~IsSome(only_files) \/ f \in Unwrap(only_files)
      have == {p \in Pieces : \A f \in PieceFiles(p) :
                 selected(f) /\ d[f].exists /\ d[f].len = FileLength(f) /\ d[f].good}
  IN [have_pieces |-> have,
      needed_pieces |-> Pieces \ have,
      have_bytes |-> SumPieceLen(have),
      needed_bytes |-> SumPieceLen(Pieces \ have)]

\* spawner.spawn_block_in_place(|| FileOps::new(..).initial_check(..))?
InitialCheck ==
  /\ spc = "check"
  /\ \E ok \in BOOLEAN :
       IF ok
       THEN /\ check' = Some(InitialCheckResults(disk, options.only_files))
            /\ spc' = StepAfter("check")
            /\ steps' = Append(steps, "check")
            /\ error' = error
       ELSE /\ error' = Some("IoError")
            /\ spc' = "failed"
            /\ UNCHANGED <<check, steps>>
  /\ UNCHANGED <<options, disk, idx, preexisting, chunk_tracker, sampler, sampled, served>>
  /\ UNCHANGED <<presize_failed, starts, prev_fail, stats, remaining, signalled>>
  /\ UNCHANGED trackerVars

\* an ensure_file_length that reports success without resizing the file
EnsureFileLength_KeepLen(file, length, ok) == file

\* ensure_file_length: file.set_len(length)
EnsureFileLength(file, length, ok) ==
  IF ok
  THEN [exists |-> file.exists, len |-> length,
        good |-> file.good /\ file.len = length]
  ELSE file

\* whether the pre-sizing loop skips file f (the `continue`)
SkipsFile(only_files, f) ==
  IF IsSome(only_files) THEN f \notin Unwrap(only_files) ELSE FALSE

\* a pre-sizing loop that returns the error of ensure_file_length (`?`)
EnsureError_Propagate(ok) == IF ok THEN None ELSE Some("IoError")

\* The error start returns after an ensure_file_length call:
\* if let Err(err) = ensure_file_length(..) { warn!(..) } else { debug!(..) }
EnsureError(ok) == None

\* one iteration of the pre-sizing loop of start
PreSize ==
  /\ spc = "presize"
  /\ \E ok \in BOOLEAN :
       IF SkipsFile(options.only_files, idx)
       THEN /\ ok
            /\ UNCHANGED <<disk, presize_failed, error>>
            /\ IF idx = NumFiles
               THEN /\ spc' = StepAfter("presize")
                    /\ steps' = Append(steps, "presize")
                    /\ idx' = 1
               ELSE /\ idx' = idx + 1
                    /\ UNCHANGED <<spc, steps>>
       ELSE /\ disk' = [disk EXCEPT ![idx] = EnsureFileLength(disk[idx], FileLength(idx), ok)]
            /\ presize_failed' = IF ok THEN presize_failed ELSE presize_failed \cup {idx}
            /\ IF IsSome(EnsureError(ok))
               THEN /\ error' = EnsureError(ok)
                    /\ spc' = "failed"
                    /\ UNCHANGED <<idx, steps>>
               ELSE /\ error' = error
                    /\ IF idx = NumFiles
                       THEN /\ spc' = StepAfter("presize")
                            /\ steps' = Append(steps, "presize")
                            /\ idx' = 1
                       ELSE /\ idx' = idx + 1
                            /\ UNCHANGED <<spc, steps>>
  /\ UNCHANGED <<options, preexisting, check, chunk_tracker, sampler, sampled, served>>
  /\ UNCHANGED <<starts, prev_fail, stats, remaining, signalled>>
  /\ UNCHANGED trackerVars

\* ChunkTracker::new(needed_pieces, have_pieces, lengths): the pieces had are
\* Verified with every block received, all others Needed with none.
ChunkTrackerNew(needed_pieces, have_pieces) ==
  [piece_state |-> [p \in Pieces |-> IF p \in have_pieces THEN "Verified" ELSE "Needed"],
   blocks |-> [p \in Pieces |-> IF p \in have_pieces THEN 1..PieceLen(p) ELSE {}]]

\* TorrentStateLive::new(.., have_bytes, needed_bytes, ..): the counters
StatsNew(have_bytes, needed_bytes) ==
  [have_bytes |-> have_bytes,
   initially_needed |-> needed_bytes,
   fetched_bytes |-> 0,
   downloaded_and_checked_bytes |-> 0]

\* ChunkTracker::new, TorrentStateLive::new and the manager
Construct ==
  /\ spc = "construct"
  /\ chunk_tracker' = Some(ChunkTrackerNew(Unwrap(check).needed_pieces,
                                           Unwrap(check).have_pieces))
  /\ stats' = Some(StatsNew(Unwrap(check).have_bytes, Unwrap(check).needed_bytes))
  /\ spc' = StepAfter("construct")
  /\ steps' = Append(steps, "construct")
  /\ UNCHANGED <<options, disk, idx, error, preexisting, check, sampler, sampled, served>>
  /\ UNCHANGED <<presize_failed, starts, prev_fail, remaining, signalled>>
  /\ UNCHANGED trackerVars

\* spawn(span!(.., "speed_estimator_updater"), ..) and Ok(mgr.into_handle())
SpawnAndReturn ==
  /\ spc = "spawn"
  /\ sampler' = TRUE
  /\ spc' = StepAfter("spawn")
  /\ steps' = Append(steps, "spawn")
  /\ UNCHANGED <<options, disk, idx, error, preexisting, check, chunk_tracker, sampled, served>>
  /\ UNCHANGED <<presize_failed, starts, prev_fail, stats, remaining, signalled>>
  /\ UNCHANGED trackerVars

\* start is called again with the same arguments after it returned an
\* error; the file at which it stopped may have been removed in between
StartAgain ==
  /\ spc = "failed"
  /\ starts < MaxStarts
  /\ \E removed \in BOOLEAN :
       disk' = IF removed THEN [disk EXCEPT ![idx] = AbsentFile] ELSE disk
  /\ prev_fail' = Some([opening |-> (steps = <<>>), at |-> idx,
                         error |-> Unwrap(error), pre |-> preexisting])
  /\ starts' = starts + 1
  /\ preexisting' = {f \in Files : disk'[f].exists}
  /\ spc' = "open"
  /\ idx' = 1
  /\ error' = None
  /\ steps' = <<>>
  /\ presize_failed' = {}
  /\ UNCHANGED <<options, check, chunk_tracker, sampler, sampled, served>>
  /\ UNCHANGED <<stats, remaining, signalled>>
  /\ UNCHANGED trackerVars

\* whether start has returned a handle
HandleReturned == spc = "returned"

\* ------------------------------------------------ background activity
\* the byte counters are unsigned integers of CounterBits bits
Modulus == 2 ^ CounterBits
WrappingSub(a, b) == (a - b) % Modulus
Min(a, b) == IF a <= b THEN a ELSE b

\* TorrentStateLive::get_downloaded_bytes: the raw fetched counter
get_downloaded_bytes(st) == st.fetched_bytes

\* a left-to-download derived from the raw fetched counter
get_left_to_download_bytes_FromFetched(st) ==
  IF st.fetched_bytes >= st.initially_needed THEN 0
  ELSE st.initially_needed - st.fetched_bytes

\* TorrentStateLive::get_left_to_download_bytes:
\* needed_initially - downloaded_and_checked, floored at zero
get_left_to_download_bytes(st) ==
  IF st.downloaded_and_checked_bytes >= st.initially_needed THEN 0
  ELSE st.initially_needed - st.downloaded_and_checked_bytes

\* whether `needed - stats.downloaded_and_checked_bytes` leaves the range of
\* the unsigned type
SubOverflows(st) == st.downloaded_and_checked_bytes > st.initially_needed

\* needed.wrapping_sub(fetched).min(needed - stats.downloaded_and_checked_bytes)
\* in a build whose `-` wraps
RemainingOf(st) ==
  Min(WrappingSub(st.initially_needed, st.fetched_bytes),
      (st.initially_needed - st.downloaded_and_checked_bytes) % Modulus)

\* One iteration of the speed_estimator_updater loop. When the plain
\* subtraction overflows, a build with overflow checks panics (the task
\* ends) and a build without them wraps.
Sample ==
  /\ sampler
  /\ IsSome(stats)
  /\ \E build \in {"overflow_checks", "wrapping"} :
       IF SubOverflows(Unwrap(stats)) /\ build = "overflow_checks"
       THEN /\ sampler' = FALSE
            /\ UNCHANGED <<sampled, remaining>>
       ELSE /\ sampled' = TRUE
            /\ remaining' = Some(RemainingOf(Unwrap(stats)))
            /\ sampler' = sampler
  /\ UNCHANGED <<served, signalled>>
  /\ UNCHANGED <<openVars, disk, check, chunk_tracker, presize_failed, stats>>
  /\ UNCHANGED trackerVars

\* ChunkTracker::next_block: the lowest block not received of the lowest
\* piece that is not Verified; None when there is none
NextBlockOf(ct) ==
  LET cand == {p \in Pieces : ct.piece_state[p] # "Verified"
                                /\ (1..PieceLen(p)) \ ct.blocks[p] # {}}
  IN IF cand = {} THEN None
     ELSE LET p == CHOOSE x \in cand : \A y \in cand : x <= y
              free == (1..PieceLen(p)) \ ct.blocks[p]
              b == CHOOSE x \in free : \A y \in free : x <= y
          IN Some(<<p, b>>)

\* the peer layer asks for a block through the handle
NextBlock ==
  /\ HandleReturned
  /\ IsSome(chunk_tracker)
  /\ served' = Some(NextBlockOf(Unwrap(chunk_tracker)))
  /\ UNCHANGED <<sampled, remaining, signalled>>
  /\ UNCHANGED startVars
  /\ UNCHANGED trackerVars

\* ------------------------------------------------------ block writes
Blocks(p) == 1..PieceLen(p)

\* a write that stores its own block over the bitset it read (a lost update)
on_block_written_LastOnly(ct, p, b) ==
  LET received == IF ct.piece_state[p] \in {"Needed", "InProgress"} THEN {b}
                  ELSE ct.blocks[p] IN
  [piece_state |-> [ct.piece_state EXCEPT ![p] =
                      IF @ \in {"Needed", "InProgress"}
                      THEN IF received = Blocks(p) THEN "Complete" ELSE "InProgress"
                      ELSE @],
   blocks |-> [ct.blocks EXCEPT ![p] = received]]

\* ChunkTracker::on_block_written: the block is marked received; a piece
\* that was Needed or InProgress becomes Complete when this fills its
\* bitset and is InProgress otherwise
on_block_written(ct, p, b) ==
  LET received == ct.blocks[p] \cup {b} IN
  [piece_state |-> [ct.piece_state EXCEPT ![p] =
                      IF @ \in {"Needed", "InProgress"}
                      THEN IF received = Blocks(p) THEN "Complete" ELSE "InProgress"
                      ELSE @],
   blocks |-> [ct.blocks EXCEPT ![p] = received]]

\* whether on_block_written signals the caller to hash the piece: the call
\* made the piece Complete
CompletesPiece(ct, p, b) ==
  ct.piece_state[p] # "Complete" /\ on_block_written(ct, p, b).piece_state[p] = "Complete"

\* a failed verification that leaves the piece's blocks marked received
on_piece_verified_KeepBlocks(ct, p, success) ==
  IF success
  THEN [piece_state |-> [ct.piece_state EXCEPT ![p] = IF @ = "Complete" THEN "Verified" ELSE @],
        blocks |-> ct.blocks]
  ELSE [piece_state |-> [ct.piece_state EXCEPT ![p] = "Needed"],
        blocks |-> ct.blocks]

\* a verification that makes a Complete piece Verified whatever the hash
\* check said
on_piece_verified_IgnoreResult(ct, p, success) ==
  IF ct.piece_state[p] = "Complete"
  THEN [piece_state |-> [ct.piece_state EXCEPT ![p] = "Verified"], blocks |-> ct.blocks]
  ELSE IF success THEN ct
  ELSE [piece_state |-> [ct.piece_state EXCEPT ![p] = "Needed"],
        blocks |-> [ct.blocks EXCEPT ![p] = {}]]

\* ChunkTracker::on_piece_verified: on success a Complete piece becomes
\* Verified; on failure the piece is Needed again with no block received
on_piece_verified(ct, p, success) ==
  IF success
  THEN [piece_state |-> [ct.piece_state EXCEPT ![p] = IF @ = "Complete" THEN "Verified" ELSE @],
        blocks |-> ct.blocks]
  ELSE [piece_state |-> [ct.piece_state EXCEPT ![p] = "Needed"],
        blocks |-> [ct.blocks EXCEPT ![p] = {}]]

\* the counters after on_block_written(piece, block, bytes_len): the raw
\* fetched counter grows by bytes_len, whether or not the block was received
\* before
StatsAfterWrite(st, bytes_len) ==
  [st EXCEPT !.fetched_bytes = @ + bytes_len]

\* counters that count the piece as checked whatever the hash check said
StatsAfterVerify_CountAlways(st, p, was, success) ==
  [st EXCEPT !.downloaded_and_checked_bytes = @ + PieceLen(p)]

\* the counters after on_piece_verified(piece, success) on a piece in state
\* `was`: the checked counter grows by the piece's length when a Complete
\* piece is verified; a failure changes no counter
StatsAfterVerify(st, p, was, success) ==
  IF success /\ was = "Complete"
  THEN [st EXCEPT !.downloaded_and_checked_bytes = @ + PieceLen(p)]
  ELSE st

\* the peer layer has written block b of piece p (one block of bytes)
OnBlockWritten(p, b) ==
  /\ HandleReturned
  /\ Unwrap(stats).fetched_bytes < MaxFetched
  /\ chunk_tracker' = Some(on_block_written(Unwrap(chunk_tracker), p, b))
  /\ signalled' = IF CompletesPiece(Unwrap(chunk_tracker), p, b)
                   THEN signalled \cup {p} ELSE signalled
  /\ stats' = Some(StatsAfterWrite(Unwrap(stats), 1))
  /\ UNCHANGED <<sampled, served, remaining>>
  /\ UNCHANGED <<openVars, disk, check, sampler, presize_failed>>
  /\ UNCHANGED trackerVars

\* the hash check of piece p has ended: of a Complete piece after its
\* completion was signalled, or a failed re-check of a Verified piece
OnPieceVerified(p, success) ==
  /\ HandleReturned
  /\ \/ Unwrap(chunk_tracker).piece_state[p] = "Complete" /\ p \in signalled
     \/ Unwrap(chunk_tracker).piece_state[p] = "Verified" /\ ~success
  /\ chunk_tracker' = Some(on_piece_verified(Unwrap(chunk_tracker), p, success))
  /\ signalled' = signalled \ {p}
  /\ stats' = Some(StatsAfterVerify(Unwrap(stats), p,
                                     Unwrap(chunk_tracker).piece_state[p], success))
  /\ UNCHANGED <<sampled, served, remaining>>
  /\ UNCHANGED <<openVars, disk, check, sampler, presize_failed>>
  /\ UNCHANGED trackerVars

\* ------------------------------------------------------- tracker loop
\* the peer lists a response may carry: the empty list, every list of one
\* address, every list that names one address twice, and the list of all
\* addresses
AllAddrs == [i \in 1..NumAddrs |-> i]
PeerLists ==
  {<<>>} \cup {<<a>> : a \in Addrs} \cup {<<a, a>> : a \in Addrs} \cup {AllAddrs}

\* what one announce meets: the transport fails ("transport"), the HTTP
\* status is no success ("status"), reading the body fails ("body"), the body
\* decodes as a TrackerError ("failure"), the body decodes as neither
\* ("undecodable"), or the body decodes as a TrackerResponse ("ok"). A body
\* that is not accepted may still carry an interval and peers.
Responses ==
  [kind : {"ok"}, interval : Intervals, peers : PeerLists]
  \cup [kind : {"transport", "status", "body", "failure", "undecodable"},
        interval : {1800}, peers : {AllAddrs}]

\* TorrentStateLive::add_peer_if_not_seen
add_peer_if_not_seen(ps, addr) ==
  IF ps[addr] > 0 THEN ps ELSE [ps EXCEPT ![addr] = 1]

\* a loop that stops after the first peer of the list
AddPeers_FirstOnly(ps, list) ==
  IF list = <<>> THEN ps ELSE add_peer_if_not_seen(ps, Head(list))

\* for peer in response.peers.iter_sockaddrs() { add_peer_if_not_seen(peer) }
RECURSIVE AddPeers(_, _)
AddPeers(ps, list) ==
  IF list = <<>> THEN ps
  ELSE AddPeers(add_peer_if_not_seen(ps, Head(list)), Tail(list))

\* a request that feeds the peers of a body before it looks for a failure
\* reason in it
tracker_one_request_PeersFirst(ps, resp) ==
  IF resp.kind \in {"transport", "status", "body"} THEN [result |-> None, peers |-> ps]
  ELSE IF resp.kind \in {"failure", "undecodable"}
  THEN [result |-> None, peers |-> AddPeers(ps, resp.peers)]
  ELSE [result |-> Some(resp.interval), peers |-> AddPeers(ps, resp.peers)]

\* tracker_one_request: the Result it returns (Some(interval) for Ok, None
\* for Err) and the peer set it leaves
tracker_one_request(ps, resp) ==
  IF resp.kind = "transport" THEN [result |-> None, peers |-> ps]
  ELSE IF resp.kind = "status" THEN [result |-> None, peers |-> ps]
  ELSE IF resp.kind = "body" THEN [result |-> None, peers |-> ps]
  ELSE IF resp.kind = "failure" THEN [result |-> None, peers |-> ps]
  ELSE IF resp.kind = "undecodable" THEN [result |-> None, peers |-> ps]
  ELSE [result |-> Some(resp.interval), peers |-> AddPeers(ps, resp.peers)]

\* an Err arm that sets the event back to Started
EventAfter_ResetOnErr(ev, t, result) ==
  IF IsSome(result) THEN [ev EXCEPT ![t] = None] ELSE [ev EXCEPT ![t] = Some("Started")]

\* an event cleared before the match, whatever the result
EventAfter_ClearAlways(ev, t, result) == [ev EXCEPT ![t] = None]

\* an event shared by all loops instead of a local of each
EventAfter_Shared(ev, t, result) ==
  IF IsSome(result) THEN [u \in Trackers |-> None] ELSE ev

\* the match on the result: the events of the loops after loop t's result
EventAfter(ev, t, result) ==
  IF IsSome(result) THEN [ev EXCEPT ![t] = None] ELSE ev

\* an Err arm that sleeps the configured override when there is one
SleepAfter_ForceOnErr(result, force_tracker_interval) ==
  IF IsSome(result)
  THEN UnwrapOrElse(force_tracker_interval, Unwrap(result))
  ELSE UnwrapOrElse(force_tracker_interval, FallbackInterval)

\* an Ok arm that ignores the configured override
SleepAfter_NoForce(result, force_tracker_interval) ==
  IF IsSome(result) THEN Unwrap(result) ELSE FallbackInterval

\* the match on the result: the duration the loop sleeps
SleepAfter(result, force_tracker_interval) ==
  IF IsSome(result)
  THEN UnwrapOrElse(force_tracker_interval, Unwrap(result))
  ELSE FallbackInterval

\* an Err arm that returns the error (`?` on the request)
PcAfter_ReturnErr(result) == IF IsSome(result) THEN "sleep" ELSE "done"

\* the match on the result: where the loop goes (both arms end in a sleep
\* inside `loop`)
PcAfter(result) == "sleep"

\* single_tracker_monitor is entered for endpoint t:
\* let mut event = Some(TrackerRequestEvent::Started)
StartMonitor(t) ==
  /\ HandleReturned
  /\ tpc[t] = "idle"
  /\ tpc' = [tpc EXCEPT ![t] = "top"]
  /\ event' = [event EXCEPT ![t] = Some("Started")]
  /\ UNCHANGED <<peers, accepted, request, outcome, sleep, succeeded, reported>>
  /\ UNCHANGED runVars
  /\ UNCHANGED startVars

\* a request with the two counters in each other's field
BuildRequest_Swapped(st, ev) ==
  [event |-> ev,
   downloaded |-> get_left_to_download_bytes(st),
   left |-> get_downloaded_bytes(st)]

\* let request = TrackerRequest { downloaded: .., left: .., event, .. }
BuildRequest(st, ev) ==
  [event |-> ev,
   downloaded |-> get_downloaded_bytes(st),
   left |-> get_left_to_download_bytes(st)]

\* top of the loop (on entry, or when the sleep is over): build the
\* TrackerRequest and send it
Announce(t) ==
  /\ tpc[t] \in {"top", "sleep"}
  /\ request' = [request EXCEPT ![t] = Some(BuildRequest(Unwrap(stats), event[t]))]
  /\ reported' = [reported EXCEPT ![t] =
                     Some([downloaded |-> Unwrap(request'[t]).downloaded,
                           left |-> Unwrap(request'[t]).left,
                           moved |-> /\ IsSome(reported[t])
                                     /\ Unwrap(reported[t]).downloaded
                                          < Unwrap(request'[t]).downloaded
                                     /\ Unwrap(reported[t]).left
                                          > Unwrap(request'[t]).left])]
  /\ tpc' = [tpc EXCEPT ![t] = "await"]
  /\ sleep' = [sleep EXCEPT ![t] = None]
  /\ UNCHANGED <<peers, accepted, event, outcome, succeeded>>
  /\ UNCHANGED runVars
  /\ UNCHANGED startVars

\* tracker_one_request returns and the match arm runs up to its sleep
Respond(t) ==
  /\ tpc[t] = "await"
  /\ \E resp \in Responses :
       LET r == tracker_one_request(peers, resp) IN
       /\ peers' = r.peers
       /\ event' = EventAfter(event, t, r.result)
       /\ sleep' = [sleep EXCEPT ![t] = Some(SleepAfter(r.result, options.force_tracker_interval))]
       /\ tpc' = [tpc EXCEPT ![t] = PcAfter(r.result)]
       /\ outcome' = [outcome EXCEPT ![t] =
                        Some([ok |-> IsSome(r.result), interval |-> resp.interval])]
       /\ succeeded' = [succeeded EXCEPT ![t] = @ \/ IsSome(r.result)]
       /\ accepted' = IF resp.kind = "ok"
                      THEN accepted \cup {resp.peers[i] : i \in 1..Len(resp.peers)}
                      ELSE accepted
  /\ request' = [request EXCEPT ![t] = None]
  /\ UNCHANGED reported
  /\ UNCHANGED runVars
  /\ UNCHANGED startVars

\* the steps of start
StartStep ==
  \/ OpenFile
  \/ InitialCheck
  \/ PreSize
  \/ Construct
  \/ SpawnAndReturn

\* Construction followed by the running engine with one announce endpoint.
StartNext ==
  \/ StartStep
  \/ Sample
  \/ NextBlock
  \/ StartMonitor(1)
  \/ Announce(1)
  \/ Respond(1)

SpecStart == StartInit /\ [][StartNext]_vars

\* Calls of start one after the other on the same disk, each after the one
\* before it failed.
RestartNext ==
  \/ StartStep
  \/ StartAgain

SpecRestart == StartInit /\ [][RestartNext]_vars

\* The state start returns in for a fresh download: overwrite not requested,
\* no output file on disk before, every file selected, no file-system error.
FreshDisk == [f \in Files |-> EnsureFileLength(EmptyFile, FileLength(f), TRUE)]
FreshCheck == InitialCheckResults([f \in Files |-> EmptyFile], None)

Init ==
  /\ options \in [overwrite : {FALSE},
                  force_tracker_interval : ForceChoices,
                  only_files : {None}]
  /\ disk = FreshDisk
  /\ spc = "returned"
  /\ idx = 1
  /\ error = None
  /\ steps = <<"open", "check", "presize", "construct", "spawn">>
  /\ preexisting = {}
  /\ check = Some(FreshCheck)
  /\ chunk_tracker = Some(ChunkTrackerNew(FreshCheck.needed_pieces, FreshCheck.have_pieces))
  /\ sampler = TRUE
  /\ sampled = FALSE
  /\ served = None
  /\ peers = [a \in Addrs |-> 0]
  /\ accepted = {}
  /\ tpc = [t \in Trackers |-> "idle"]
  /\ event = [t \in Trackers |-> None]
  /\ request = [t \in Trackers |-> None]
  /\ outcome = [t \in Trackers |-> None]
  /\ sleep = [t \in Trackers |-> None]
  /\ succeeded = [t \in Trackers |-> FALSE]
  /\ presize_failed = {}
  /\ starts = 1
  /\ prev_fail = None
  /\ stats = Some(StatsNew(FreshCheck.have_bytes, FreshCheck.needed_bytes))
  /\ remaining = None
  /\ signalled = {}
  /\ reported = [t \in Trackers |-> None]

\* The states start returns in when it resumes a download: overwrite
\* requested, every output file on disk before (empty, or with its full
\* and correct content), every file selected, no file-system error.
ResumeDisks == {d \in DiskChoices : \A f \in Files : d[f].exists}
ResumedDisk(d) == [f \in Files |-> EnsureFileLength(d[f], FileLength(f), TRUE)]
ResumedCheck(d) == InitialCheckResults(d, None)

ChunksInit ==
  /\ \E d \in ResumeDisks :
       /\ disk = ResumedDisk(d)
       /\ check = Some(ResumedCheck(d))
       /\ chunk_tracker = Some(ChunkTrackerNew(ResumedCheck(d).needed_pieces,
                                                ResumedCheck(d).have_pieces))
       /\ stats = Some(StatsNew(ResumedCheck(d).have_bytes, ResumedCheck(d).needed_bytes))
  /\ options = [overwrite |-> TRUE, force_tracker_interval |-> None, only_files |-> None]
  /\ spc = "returned"
  /\ idx = 1
  /\ error = None
  /\ steps = <<"open", "check", "presize", "construct", "spawn">>
  /\ preexisting = Files
  /\ sampler = TRUE
  /\ sampled = FALSE
  /\ served = None
  /\ peers = [a \in Addrs |-> 0]
  /\ accepted = {}
  /\ tpc = [t \in Trackers |-> "idle"]
  /\ event = [t \in Trackers |-> None]
  /\ request = [t \in Trackers |-> None]
  /\ outcome = [t \in Trackers |-> None]
  /\ sleep = [t \in Trackers |-> None]
  /\ succeeded = [t \in Trackers |-> FALSE]
  /\ presize_failed = {}
  /\ starts = 1
  /\ prev_fail = None
  /\ remaining = None
  /\ signalled = {}
  /\ reported = [t \in Trackers |-> None]

\* the calls of the peer layer into the ChunkTracker
ChunkStep ==
  \/ \E p \in Pieces : \E b \in Blocks(p) : OnBlockWritten(p, b)
  \/ \E p \in Pieces : \E success \in BOOLEAN : OnPieceVerified(p, success)

\* The block bookkeeping of the running engine with its sampling task.
ChunksNext ==
  \/ ChunkStep
  \/ NextBlock
  \/ Sample

SpecChunks == ChunksInit /\ [][ChunksNext]_vars

\* The block bookkeeping of the running engine with one announce loop.
AnnounceNext ==
  \/ ChunkStep
  \/ StartMonitor(1)
  \/ Announce(1)
  \/ Respond(1)

\* The announce loops of the running engine, one per endpoint.
Next ==
  \/ \E t \in Trackers : StartMonitor(t)
  \/ \E t \in Trackers : Announce(t)
  \/ \E t \in Trackers : Respond(t)

Spec == Init /\ [][Next]_vars

SpecAnnounce == Init /\ [][AnnounceNext]_vars

\* The scheduler runs a task whose sleep is over: every loop that can
\* announce eventually does.
FairSpec == Spec /\ \A t \in Trackers : WF_vars(Announce(t))

\* The initial state of Spec, as a predicate on the states of SpecStart
\* (SpecStart reaches it: start returns in this state).
FreshStartState ==
  /\ spc = "returned" /\ disk = FreshDisk /\ check = Some(FreshCheck)
  /\ ~options.overwrite /\ options.only_files = None /\ preexisting = {}
  /\ chunk_tracker = Some(ChunkTrackerNew(FreshCheck.needed_pieces, FreshCheck.have_pieces))
  /\ sampler /\ ~sampled /\ served = None /\ \A t \in Trackers : tpc[t] = "idle"

\* ------------------------------------------------------------- claims
Failed(t) == tpc[t] = "sleep" /\ IsSome(outcome[t]) /\ ~Unwrap(outcome[t]).ok
Succeeded(t) == tpc[t] = "sleep" /\ IsSome(outcome[t]) /\ Unwrap(outcome[t]).ok
\* the step is the return of loop t's request
Responds(t) == tpc[t] = "await" /\ tpc'[t] # "await"
RespondsErr(t) == Responds(t) /\ IsSome(outcome'[t]) /\ ~Unwrap(outcome'[t]).ok
Monitored(t) == tpc[t] # "idle"

\* C1: every announce of a loop up to and including its first successful one
\* carries the event Started, every later one carries no event, and the
\* event of a loop, once None, never becomes Started again.
C1_StartedUntilFirstSuccess ==
  /\ [](\A t \in Trackers :
          /\ IsSome(request[t]) =>
               (Unwrap(request[t]).event = Some("Started") <=> ~succeeded[t])
          /\ IsSome(request[t]) =>
               (Unwrap(request[t]).event = None <=> succeeded[t])
          /\ Monitored(t) => (event[t] = None <=> succeeded[t]))
  /\ [][\A t \in Trackers : (Monitored(t) /\ event[t] = None) => event'[t] = None]_vars

\* a loop that failed after an earlier success and still has no event
C1_Witness ==
  \E t \in Trackers : Failed(t) /\ succeeded[t] /\ event[t] = None

\* C2: a failed announce leaves the stored event unchanged, and the announce
\* after a failed announce whose event was Started carries Started again.
C2_FailureKeepsEvent ==
  [][\A t \in Trackers :
       /\ RespondsErr(t) => event'[t] = event[t]
       /\ (Failed(t) /\ event[t] = Some("Started") /\ tpc'[t] = "await") =>
            (IsSome(request'[t]) /\ Unwrap(request'[t]).event = Some("Started"))]_vars

\* a loop whose first announce failed and that announces Started again
C2_Witness ==
  \E t \in Trackers :
    /\ tpc[t] = "await"
    /\ IsSome(outcome[t]) /\ ~Unwrap(outcome[t]).ok
    /\ Unwrap(request[t]).event = Some("Started")

\* C3: the return of a failed request leaves the peer set as it was before
\* the request.
C3_FailureAddsNoPeer ==
  [][\A t \in Trackers : RespondsErr(t) => peers' = peers]_vars

\* a failed announce (every failed response carries all addresses) after
\* which an address is still not in the peer set
C3_Witness ==
  \E t \in Trackers : Failed(t) /\ \E a \in Addrs : peers[a] = 0

\* C4: after a failed announce the loop sleeps exactly the fallback interval,
\* whatever the override and whatever an earlier response carried, and the
\* next announce is always possible (no retry limit).
C4_FailureSleepsFallback ==
  \A t \in Trackers :
    Failed(t) => (sleep[t] = Some(FallbackInterval) /\ ENABLED Announce(t))

\* a failure with an override configured, after an earlier success
C4_Witness ==
  \E t \in Trackers :
    Failed(t) /\ succeeded[t] /\ IsSome(options.force_tracker_interval)

\* the values a configured minimum interval would range over
MinimumChoices == {0, 30}
Max(a, b) == IF a >= b THEN a ELSE b

\* C5 (as stated): after a successful announce the loop sleeps the override
\* when one is configured and otherwise max(response.interval, minimum),
\* for every configured minimum.
C5_SleepsAtLeastMinimum ==
  \A t \in Trackers : \A m \in MinimumChoices :
    Succeeded(t) =>
      sleep[t] = Some(IF IsSome(options.force_tracker_interval)
                      THEN Unwrap(options.force_tracker_interval)
                      ELSE Max(Unwrap(outcome[t]).interval, m))

\* C5 (amended): after a successful announce the loop sleeps the override
\* when one is configured and otherwise exactly the response's interval,
\* also when that interval is 0.
C5_SleepsOverrideOrInterval ==
  \A t \in Trackers :
    Succeeded(t) =>
      sleep[t] = Some(IF IsSome(options.force_tracker_interval)
                      THEN Unwrap(options.force_tracker_interval)
                      ELSE Unwrap(outcome[t]).interval)

\* a success without override whose response carried the interval 0
C5_Witness ==
  \E t \in Trackers :
    /\ Succeeded(t) /\ ~IsSome(options.force_tracker_interval)
    /\ Unwrap(outcome[t]).interval = 0 /\ sleep[t] = Some(0)

\* C6: the peer set holds every address at most once, holds exactly the
\* addresses of the accepted responses (it starts empty), and no step
\* removes an address from it.
C6_PeerSetDedupAppendOnly ==
  /\ [](\A a \in Addrs : peers[a] <= 1 /\ (peers[a] = 1 <=> a \in accepted))
  /\ [][\A a \in Addrs : peers'[a] >= peers[a]]_vars

\* one accepted response so far, and the peer set holds NumAddrs distinct
\* addresses: the response that listed them all added each of them once
C6_Witness ==
  /\ \A a \in Addrs : peers[a] = 1
  /\ \E t \in Trackers :
       /\ Succeeded(t)
       /\ \A u \in Trackers : u # t => ~succeeded[u]

\* C7: a started loop is always at a position of the loop from which it has
\* a next step, no tracker failure becomes an error of the engine, and
\* every outcome is followed by another announce once its sleep is over.
C7_LoopNeverTerminates ==
  /\ [](\A t \in Trackers :
          Monitored(t) =>
            /\ tpc[t] \in {"top", "await", "sleep"}
            /\ ENABLED (Announce(t) \/ Respond(t)))
  /\ [](error = None /\ spc = "returned")
  /\ \A t \in Trackers : (tpc[t] = "sleep") ~> (tpc[t] = "await")

\* a loop announcing again after a failure that followed a success
C7_Witness ==
  \E t \in Trackers :
    /\ tpc[t] = "await" /\ succeeded[t]
    /\ IsSome(outcome[t]) /\ ~Unwrap(outcome[t]).ok

\* the state local to loop t
LoopLocal(t) == <<tpc[t], event[t], request[t], outcome[t], sleep[t], succeeded[t]>>

\* C8: a step of one loop changes no local state (position, event, request,
\* outcome, sleep) of another loop, and nothing outside the loops but the
\* peer set.
C8_LoopsIndependent ==
  [][\A t \in Trackers :
       LoopLocal(t)' # LoopLocal(t) =>
         /\ \A u \in Trackers : u # t => LoopLocal(u)' = LoopLocal(u)
         /\ UNCHANGED <<startVars, runVars>>]_vars

\* one loop has only failed and still announces Started while another has
\* succeeded, has no event and has added peers
C8_Witness ==
  \E t, u \in Trackers :
    /\ t # u
    /\ Failed(t) /\ ~succeeded[t] /\ event[t] = Some("Started")
    /\ Succeeded(u) /\ event[u] = None
    /\ \E a \in Addrs : peers[a] = 1

\* the order of the startup steps
StartupOrder == <<"open", "check", "presize", "construct", "spawn">>
IsPrefix(a, b) == Len(a) <= Len(b) /\ \A i \in 1..Len(a) : a[i] = b[i]
PeerAdded == \E a \in Addrs : peers[a] > 0
CheckReturned == IsSome(check)

\* C9: no block request is served, no peer is added and no announce or
\* sampling step runs before the initial check has returned; the
\* ChunkTracker is constructed from the result of the completed check; and
\* the startup steps run in the order open, check, pre-size, construct,
\* start background tasks.
C9_InitialCheckPrecedesActivity ==
  /\ [](/\ (IsSome(served) \/ sampled \/ sampler \/ PeerAdded
             \/ \E t \in Trackers : Monitored(t)) => CheckReturned
        /\ IsSome(chunk_tracker) => CheckReturned
        /\ IsPrefix(steps, StartupOrder)
        /\ HandleReturned => steps = StartupOrder)
  /\ [][(~IsSome(chunk_tracker) /\ IsSome(chunk_tracker')) =>
          /\ CheckReturned
          /\ check' = check
          /\ chunk_tracker' = Some(ChunkTrackerNew(Unwrap(check).needed_pieces,
                                                   Unwrap(check).have_pieces))]_vars

\* after startup: a block was served, a sample taken, a peer added
C9_Witness ==
  /\ IsSome(served) /\ IsSome(Unwrap(served))
  /\ sampled /\ PeerAdded /\ tpc[1] = "await"
  /\ CheckReturned /\ Unwrap(check).have_pieces # {}

\* C10: when overwrite was not requested and an output file existed at the
\* call, start does not get past opening the files: it ends with an error,
\* with FileConflict when it reaches an existing file, and runs no initial
\* check, constructs no ChunkTracker and starts no task. When overwrite was
\* requested start never ends with FileConflict.
C10_FileConflictFailsFast ==
  /\ (~options.overwrite /\ preexisting # {}) =>
       /\ spc \in {"open", "failed"}
       /\ spc = "open" => ENABLED OpenFile
       /\ spc = "failed" => error \in {Some("FileConflict"), Some("IoError")}
       /\ (spc = "failed" /\ error = Some("FileConflict")) => idx \in preexisting
       /\ (spc = "failed" /\ error = Some("IoError")) =>
            \E f \in preexisting : f >= idx
       /\ check = None /\ chunk_tracker = None /\ ~sampler /\ ~sampled
       /\ served = None /\ \A t \in Trackers : ~Monitored(t)
  /\ options.overwrite => error # Some("FileConflict")
  /\ error = Some("FileConflict") => (~options.overwrite /\ idx \in preexisting)
  /\ (spc = "failed") <=> IsSome(error)

\* start ended with FileConflict on its second file, after creating the first
C10_Witness ==
  /\ spc = "failed" /\ error = Some("FileConflict")
  /\ ~options.overwrite /\ idx = 2 /\ preexisting = {2}

\* overwrite requested, files existed, and start returned a handle
C10_OverwriteReturns ==
  options.overwrite /\ preexisting = Files /\ HandleReturned

\* -------------------------------------------------------------------
\* C11 as stated: after a start that returned a handle with no
\* ensure_file_length failure, every output file has its declared length on
\* disk, whatever only_files is.
C11_AllFilesSized ==
  (HandleReturned /\ presize_failed = {}) =>
    \A f \in Files : disk[f].len = FileLength(f)

\* C11: after a start that returned a handle with no ensure_file_length
\* failure, every output file that only_files selects (every file when
\* only_files is absent) exists with its declared length on disk. Files
\* that only_files leaves out are not sized.
C11_SelectedFilesSized ==
  (HandleReturned /\ presize_failed = {}) =>
    \A f \in Files :
      ~SkipsFile(options.only_files, f) => (disk[f].exists /\ disk[f].len = FileLength(f))

\* a handle was returned with only_files naming one file that start created:
\* it has its declared length, and a file not named was left empty
C11_Witness ==
  /\ HandleReturned /\ presize_failed = {}
  /\ IsSome(options.only_files)
  /\ \E f \in Unwrap(options.only_files) :
       f \notin preexisting /\ disk[f].len = FileLength(f)
  /\ \E g \in Files : SkipsFile(options.only_files, g) /\ disk[g].len = 0

\* -------------------------------------------------------------------
\* what start has done by each position after the initial check
AfterCheck == {"presize", "construct", "spawn", "returned"}

C12_State ==
  /\ presize_failed # {} => (spc \in AfterCheck /\ error = None)
  /\ spc \in AfterCheck => IsSome(check)
  /\ HandleReturned =>
       /\ chunk_tracker = Some(ChunkTrackerNew(Unwrap(check).needed_pieces,
                                                Unwrap(check).have_pieces))
       /\ Unwrap(stats).have_bytes = Unwrap(check).have_bytes
       /\ Unwrap(stats).initially_needed = Unwrap(check).needed_bytes
       /\ \A f \in Files :
            (~SkipsFile(options.only_files, f) /\ f \notin presize_failed)
              => disk[f].len = FileLength(f)

C12_Step ==
  (spc = "presize") =>
    /\ check' = check
    /\ error' = None
    /\ \/ spc' = "presize" /\ idx' = idx + 1
       \/ spc' = "construct" /\ idx = NumFiles

\* C12: an ensure_file_length failure does not end start: the pre-sizing
\* loop goes on to the next file with the initial check's result as it
\* was, the later files are sized, and start returns a handle whose
\* ChunkTracker and byte counts are those of the initial check's result.
C12_EnsureFailureNotFatal == []C12_State /\ [][C12_Step]_vars

\* start returned a handle although sizing its first file failed; the file
\* after it, which start created, has its declared length
C12_Witness ==
  /\ HandleReturned /\ presize_failed = {1}
  /\ 2 \notin preexisting /\ disk[2].len = FileLength(2)
  /\ IsSome(chunk_tracker)

\* -------------------------------------------------------------------
\* the call of start before this one failed opening a file after the first,
\* without overwrite
FailedPastFirst ==
  /\ IsSome(prev_fail)
  /\ ~options.overwrite
  /\ Unwrap(prev_fail).opening
  /\ Unwrap(prev_fail).at >= 2

\* C19: files start created are not removed when opening a later file
\* fails. When a call without overwrite failed opening a file after the
\* first, the first file exists afterwards and the next call with the same
\* arguments does not get past opening it: it ends with FileConflict on the
\* first file, also when the file the earlier call stopped at was removed.
C19_SecondStartFailsOnFirstFile ==
  FailedPastFirst =>
    /\ disk[1].exists
    /\ spc \in {"open", "failed"}
    /\ idx = 1
    /\ spc = "failed" => error = Some("FileConflict")

\* the first call created file 1 and ended with FileConflict on a later file;
\* that file was removed, and the second call ended with FileConflict on
\* file 1
C19_Witness ==
  /\ FailedPastFirst
  /\ Unwrap(prev_fail).error = "FileConflict"
  /\ 1 \notin Unwrap(prev_fail).pre
  /\ ~disk[Unwrap(prev_fail).at].exists
  /\ spc = "failed" /\ idx = 1 /\ error = Some("FileConflict")

\* -------------------------------------------------------------------
\* the ChunkTracker and the counters of the running engine
PieceState(p) == Unwrap(chunk_tracker).piece_state[p]
Received(p) == Unwrap(chunk_tracker).blocks[p]
Fetched == Unwrap(stats).fetched_bytes
Checked == Unwrap(stats).downloaded_and_checked_bytes
NeededInitially == Unwrap(stats).initially_needed

\* C13: in every reachable state get_left_to_download_bytes is
\* needed_initially - downloaded_and_checked floored at zero: at least zero,
\* at most needed_initially, and the same whatever the raw fetched counter
\* holds.
C13_LeftFlooredAndBounded ==
  LET left == get_left_to_download_bytes(Unwrap(stats)) IN
  /\ left = Max(NeededInitially - Checked, 0)
  /\ left >= 0
  /\ left <= NeededInitially
  /\ \A v \in 0..MaxFetched :
       get_left_to_download_bytes([Unwrap(stats) EXCEPT !.fetched_bytes = v]) = left

\* after a failed verification and duplicate writes fetched is above
\* needed_initially and left is still all of needed_initially
C13_Witness ==
  /\ NeededInitially > 0 /\ Fetched > NeededInitially /\ Checked = 0
  /\ get_left_to_download_bytes(Unwrap(stats)) = NeededInitially

\* the floor in action: more bytes were checked than were needed initially
C13_FloorWitness ==
  Checked > NeededInitially /\ get_left_to_download_bytes(Unwrap(stats)) = 0

\* -------------------------------------------------------------------
\* a step in which the verification of piece p fails
FailsVerification(p) ==
  PieceState(p) \in {"Complete", "Verified"} /\ PieceState(p)' = "Needed"

\* next_block hands out the first block of piece p unless a piece before it
\* has a block to hand out
CanServe(ct, p) ==
  /\ IsSome(NextBlockOf(ct))
  /\ Unwrap(NextBlockOf(ct))[1] <= p
  /\ (\A q \in Pieces : q < p => (ct.piece_state[q] = "Verified" \/ ct.blocks[q] = Blocks(q)))
       => NextBlockOf(ct) = Some(<<p, 1>>)

C14_Step ==
  \A p \in Pieces :
    FailsVerification(p) =>
      /\ Received(p)' = {}
      /\ CanServe(Unwrap(chunk_tracker'), p)
      /\ \A q \in Pieces \ {p} :
           PieceState(q)' = PieceState(q) /\ Received(q)' = Received(q)

\* C14: a failed verification resets the piece and nothing else: the piece
\* is Needed with no block received, next_block hands out its blocks again,
\* and the state and the blocks of every other piece are as before. A piece
\* that is Needed has no block received in any reachable state.
C14_FailedVerificationResets ==
  [](\A p \in Pieces : PieceState(p) = "Needed" => Received(p) = {})
  /\ [][C14_Step]_vars

\* nothing was had at startup, the blocks of one piece were written, its
\* verification failed, and next_block was asked afterwards
C14_Witness ==
  /\ Unwrap(check).have_pieces = {}
  /\ \A q \in Pieces : PieceState(q) = "Needed" /\ Received(q) = {}
  /\ \E p \in Pieces : Fetched = PieceLen(p)
  /\ Checked = 0
  /\ served = Some(NextBlockOf(Unwrap(chunk_tracker)))
  /\ served = Some(Some(<<1, 1>>))

\* -------------------------------------------------------------------
\* a step in which block b of piece p is written
Writes(p, b) ==
  /\ Fetched' = Fetched + 1
  /\ b \in Received(p)'
  /\ \A q \in Pieces \ {p} : Received(q)' = Received(q)

C15_Step ==
  (Fetched' # Fetched) =>
    \E p \in Pieces : \E b \in Blocks(p) :
      /\ Writes(p, b)
      /\ Received(p)' = Received(p) \cup {b}
      /\ (Received(p)' = Blocks(p) /\ PieceState(p) \in {"Needed", "InProgress"})
           => (PieceState(p)' = "Complete" /\ p \in signalled')

\* the two orders of writing blocks b1 and b2 of piece p leave the same
\* ChunkTracker
Commute(ct, p, b1, b2) ==
  on_block_written(on_block_written(ct, p, b1), p, b2)
    = on_block_written(on_block_written(ct, p, b2), p, b1)

\* C15: on_block_written calls, which the tracker serialises, lose no block:
\* each adds its block to those received, the write that fills the bitset
\* makes the piece Complete and signals it for hashing, a piece with every
\* block received is Complete or Verified, and the result of two writes
\* does not depend on their order.
C15_WritesLoseNoBlock ==
  [](/\ \A p \in Pieces :
          Received(p) = Blocks(p) => PieceState(p) \in {"Complete", "Verified"}
     /\ \A p \in Pieces : PieceState(p) = "Complete" => p \in signalled
     /\ \A p \in Pieces : \A b1, b2 \in Blocks(p) :
          Commute(Unwrap(chunk_tracker), p, b1, b2))
  /\ [][C15_Step]_vars

\* a piece of more than one block that was needed at startup is Complete and
\* signalled after exactly one write per block
C15_Witness ==
  \E p \in Pieces :
    /\ p \in Unwrap(check).needed_pieces
    /\ PieceLen(p) > 1
    /\ PieceState(p) = "Complete" /\ p \in signalled
    /\ Fetched = PieceLen(p)

\* -------------------------------------------------------------------
C16_State ==
  \A p \in Pieces :
    /\ PieceState(p) = "Complete" => Received(p) = Blocks(p)
    /\ PieceState(p) = "Verified" => Received(p) = Blocks(p)
    /\ Received(p) = Blocks(p) => PieceState(p) \in {"Complete", "Verified"}
    /\ PieceState(p) = "InProgress" => (Received(p) # {} /\ Received(p) # Blocks(p))

C16_Step ==
  \A p \in Pieces :
    /\ (PieceState(p) # "Verified" /\ PieceState(p)' = "Verified") =>
         /\ PieceState(p) = "Complete"
         /\ Received(p) = Blocks(p)
         /\ Checked' = Checked + PieceLen(p)
    /\ (PieceState(p) # "Complete" /\ PieceState(p)' = "Complete") =>
         (Received(p) # Blocks(p) /\ Received(p)' = Blocks(p))
    /\ (PieceState(p) = "Verified" /\ PieceState(p)' # "Verified") =>
         (PieceState(p)' = "Needed" /\ Received(p)' = {} /\ stats' = stats)

\* C16: at startup the Verified pieces are those of have_pieces; later a
\* piece becomes Verified only from Complete with every block received, in
\* the step that counts it as checked; a piece is Complete only with every
\* block received and a piece with every block received is Complete or
\* Verified; a Verified piece leaves Verified only for Needed with no block
\* received.
C16_VerifiedOnlyAfterCheck ==
  /\ \A p \in Pieces : PieceState(p) = "Verified" <=> p \in Unwrap(check).have_pieces
  /\ []C16_State
  /\ [][C16_Step]_vars

\* a piece needed at startup is Verified and counted, and a piece had at
\* startup is Needed again with no block received
C16_Witness ==
  /\ \E p \in Unwrap(check).needed_pieces :
       PieceState(p) = "Verified" /\ Checked = PieceLen(p)
  /\ \E q \in Unwrap(check).have_pieces :
       PieceState(q) = "Needed" /\ Received(q) = {}

\* -------------------------------------------------------------------
C17_Step ==
  /\ Fetched' >= Fetched
  /\ Checked' >= Checked
  /\ NeededInitially' = NeededInitially
  /\ \A p \in Pieces : \A b \in Blocks(p) :
       OnBlockWritten(p, b) => (Fetched' = Fetched + 1 /\ Checked' = Checked)
  /\ \A p \in Pieces : \A success \in BOOLEAN :
       OnPieceVerified(p, success) =>
         /\ Fetched' = Fetched
         /\ Checked' = IF success THEN Checked + PieceLen(p) ELSE Checked
  /\ (Checked' # Checked) =>
       \E p \in Pieces :
         /\ PieceState(p) = "Complete" /\ PieceState(p)' = "Verified"
         /\ Checked' = Checked + PieceLen(p)

\* C17: every on_block_written call adds the bytes written to the raw fetched
\* counter, also for a block received before; no step decreases it, a
\* failed on_piece_verified changes no counter, and the checked counter
\* grows, by the piece's length, only in the step that makes a Complete
\* piece Verified.
C17_CountersGrowAsSpecified == [][C17_Step]_vars

\* a block was written again and again: fetched is above needed_initially
\* and above checked while the piece is not yet complete
C17_Witness ==
  /\ NeededInitially > 0
  /\ Fetched > NeededInitially /\ Fetched > Checked
  /\ \E p \in Pieces : PieceState(p) = "InProgress" /\ Fetched > PieceLen(p)

\* -------------------------------------------------------------------
\* C18 as stated: downloaded_and_checked never exceeds needed_initially, so
\* the sampler's `needed - downloaded_and_checked` never underflows (the
\* task is alive in every build) and the remaining value it computed is at
\* most needed_initially.
C18_SamplerNeverUnderflows ==
  /\ Checked <= NeededInitially
  /\ sampler
  /\ IsSome(remaining) => Unwrap(remaining) <= NeededInitially

\* a piece had at startup was demoted by a re-check, written again and
\* verified: more is checked than was needed initially, and the sampler of
\* a build whose subtraction wraps computed a remaining value above
\* needed_initially
C18_Witness ==
  /\ Checked > NeededInitially
  /\ IsSome(remaining)
  /\ Unwrap(remaining) > NeededInitially

\* -------------------------------------------------------------------
\* a step in which loop t sends an announce
Announces(t) == tpc[t] \in {"top", "sleep"} /\ tpc'[t] = "await"

C20_Step ==
  \A t \in Trackers :
    Announces(t) =>
      /\ IsSome(request'[t])
      /\ Unwrap(request'[t]).downloaded = Fetched
      /\ Unwrap(request'[t]).left = Max(NeededInitially - Checked, 0)
      /\ IsSome(reported[t]) =>
           /\ Unwrap(request'[t]).downloaded >= Unwrap(reported[t]).downloaded
           /\ Unwrap(request'[t]).left <= Unwrap(reported[t]).left

\* C20: each announce carries the counters as they are when its iteration
\* builds the request; a loop has a request in flight only while it awaits
\* the answer and sends no other meanwhile; over the announces of one loop
\* the reported downloaded never decreases and the reported left never
\* increases (a re-check that demotes a piece changes no counter).
C20_ReportedCountersMonotonic ==
  [](\A t \in Trackers :
       /\ IsSome(request[t]) <=> tpc[t] = "await"
       /\ tpc[t] = "await" => ~ENABLED Announce(t)
       /\ IsSome(request[t]) =>
            /\ Unwrap(request[t]).downloaded <= Fetched
            /\ Unwrap(request[t]).left >= get_left_to_download_bytes(Unwrap(stats)))
  /\ [][C20_Step]_vars

\* a loop's announce in flight reports more downloaded and less left than
\* the announce before it
C20_Witness ==
  /\ tpc[1] = "await" /\ IsSome(request[1])
  /\ IsSome(reported[1]) /\ Unwrap(reported[1]).moved
  /\ Unwrap(request[1]).downloaded > 0
  /\ Unwrap(request[1]).left < NeededInitially

====
